---- MODULE Spec2Model ----
(***************************************************************************)
(* llm-proxy: a credential-injecting reverse proxy.                        *)
(*                                                                         *)
(* The module models the session registry (pkg/session/memory.go), the     *)
(* usage tracker (pkg/session/usage.go), the auth translator               *)
(* (pkg/proxy/provider.go), the request pipeline Proxy.ServeHTTP           *)
(* (pkg/proxy/proxy.go) and the registration API (pkg/server/server.go).   *)
(*                                                                         *)
(* Go strings that the code takes apart or builds (header values, tokens,  *)
(* keys) are sequences of atoms: "Bearer "+key is <<"Bearer ">> \o key.    *)
(* Strings the code only compares (provider names, URLs, sandbox ids) are  *)
(* TLA+ strings.                                                           *)
(*                                                                         *)
(* The specifications share the variables:                                 *)
(*   Spec          concurrent proxied requests, register and revoke calls  *)
(*   SpecPipeline  one proxied request over every registry, request and    *)
(*                 upstream response of the model                          *)
(*   SpecStore     a sequential caller of the session registry             *)
(*   SpecRecord    concurrent callers of the usage tracker, mutex explicit *)
(*   SpecStream    one call of StreamResponse and the deferred Close       *)
(*   SpecApi       a sequential caller of the registration API             *)
(*   SpecExtract   one call of extractUsageFromSSE                         *)
(***************************************************************************)
EXTENDS Integers, Sequences, FiniteSets, TLC

VARIABLES
    sessions,      \* MemoryStore.sessions: token -> *Session (NoSession: no entry)
    usage,         \* UsageTracker.usage: token -> *Usage (NoUsage: no entry)
    pc,            \* per request: where Proxy.ServeHTTP stands
    req,           \* per request: r.Header, the header of the client request
    token,         \* per request: the token extractToken returned
    sess,          \* per request: the *Session Lookup returned (until it returns)
    upstream,      \* per request: the base URL of the upstream request
                   \*              (until it returns)
    out,           \* per request: upstreamReq.Header as handed to httpClient.Do
                   \*              (until it returns)
    resp,          \* per request: the upstream response httpClient.Do returned
    status,        \* per request: the status written to the client (0: none yet)
    cbody,         \* per request: the body written to the client
    dispatched,    \* per request: httpClient.Do was called
    revoked,       \* history: token -> a revoke returned and no register followed
    registered,    \* history: the session records Register has stored
    staleLookup,   \* history, per request: Lookup ran while its token was revoked
    staleDispatch, \* history, per request: Do was called while its token was revoked
    last,          \* SpecStore: the registry call made last, with its result
    prev,          \* SpecStore: the registry call made before it
    before,        \* SpecStore: the registry as it was before the last call
    mu,            \* SpecRecord: UsageTracker.mu (writer and readers holding it)
    cpc,           \* SpecRecord: per caller, its position in Record or Get
    cop,           \* SpecRecord: per caller, the call it makes
    cloc,          \* SpecRecord: per caller, the values it holds in locals
    srcReads,      \* SpecStream: what the calls of body.Read return, in order
    canFlush,      \* SpecStream: the writer is an http.Flusher
    nread,         \* SpecStream: the calls of body.Read made
    spc,           \* SpecStream: where StreamResponse stands
    wlog,          \* SpecStream: the reads, writes and flushes made, in order
    srcErr,        \* SpecStream: the error the last read of the source returns
    hpc,           \* SpecStream: where the ServeHTTP that called StreamResponse
                   \*             stands
    closed,        \* SpecStream: the calls of resp.Body.Close() made
    mrBuf,         \* SpecStream: meteringReader.buf, the copy of the bytes read
    client,        \* SpecStream: the bytes the client's connection has taken
    metered,       \* SpecStream: the bytes ServeHTTP handed to the extraction
    ebody,         \* SpecExtract: the captured lines handed to extractUsageFromSSE
    eprov,         \* SpecExtract: the provider handed to it
    eres           \* SpecExtract: what it returned (NoResult: not called yet)

vars == <<sessions, usage, pc, req, token, sess, upstream, out, resp, status, cbody, dispatched,
          revoked, registered, staleLookup, staleDispatch, last, prev, before,
          mu, cpc, cop, cloc, srcReads, canFlush, nread, spc, wlog, srcErr, hpc,
          closed, mrBuf, client, metered, ebody, eprov, eres>>

proxyVars == <<pc, req, token, sess, upstream, out, resp, status, cbody, dispatched,
               staleLookup, staleDispatch>>
storeHarnessVars == <<last, prev, before>>
recordHarnessVars == <<mu, cpc, cop, cloc>>
streamVars == <<srcReads, canFlush, nread, spc, wlog, srcErr, hpc, closed,
                mrBuf, client, metered>>
extractVars == <<ebody, eprov, eres>>

----------------------------------------------------------------------------
(* Bounds of the model *)

\* concurrent proxied requests in Spec
NumProcs == 2
\* distinct session records the control plane registers in Spec
MaxRegisters == 2
\* concurrent callers of the usage tracker in SpecRecord
NumCallers == 2

Procs == 1..NumProcs
Callers == 1..NumCallers

----------------------------------------------------------------------------
(* Strings *)

EmptyStr == <<>>

\* strings.HasPrefix
HasPrefix(s, prefix) ==
    /\ Len(s) >= Len(prefix)
    /\ SubSeq(s, 1, Len(prefix)) = prefix

\* strings.TrimPrefix
TrimPrefix(s, prefix) ==
    IF HasPrefix(s, prefix) THEN SubSeq(s, Len(prefix) + 1, Len(s)) ELSE s

\* whether string part occurs in string s (strings.Contains)
Contains(s, part) ==
    \E i \in 1..(Len(s) - Len(part) + 1) : SubSeq(s, i, i + Len(part) - 1) = part

BearerPrefix == <<"Bearer ">>
SessionPrefix == <<"session-">>

T1 == <<"t1">>
T2 == <<"t2">>
K1 == <<"sk-1">>
K2 == <<"sk-2">>

\* the tokens a request can present and the registry can be asked about
Tokens == {T1, T2, SessionPrefix \o T1}
\* the keys of the session map, "" included (Revoke and Lookup accept it)
StoreKeys == Tokens \cup {EmptyStr}
\* the real keys of the providers
Keys == {K1, K2}

----------------------------------------------------------------------------
(* net/http.Header: canonical name -> values; no values is an absent header *)

HeaderNames == {"Authorization", "X-Api-Key", "Content-Type", "Connection",
                "Transfer-Encoding"}

EmptyHeader == [k \in HeaderNames |-> <<>>]

\* Header.Get: the first value, "" when there is none
HeaderGet(h, k) == IF h[k] = <<>> THEN EmptyStr ELSE h[k][1]
\* Header.Del
HeaderDel(h, k) == [h EXCEPT ![k] = <<>>]
\* Header.Set
HeaderSet(h, k, v) == [h EXCEPT ![k] = <<v>>]

\* strings.ToLower of the header names of the model
ToLower(k) ==
    CASE k = "Authorization" -> "authorization"
      [] k = "X-Api-Key" -> "x-api-key"
      [] k = "Content-Type" -> "content-type"
      [] k = "Connection" -> "connection"
      [] k = "Transfer-Encoding" -> "transfer-encoding"

HopByHop == {"connection", "keep-alive", "transfer-encoding", "te", "trailer",
             "upgrade", "host"}

\* copyHeaders without the exclusion: every value of every header is added
copyHeadersForwardsAll(dst, src) ==
    [k \in HeaderNames |-> dst[k] \o src[k]]

\* copyHeaders: every value of every header of src that is not hop-by-hop is
\* added to dst (Header.Add appends)
copyHeaders(dst, src) ==
    [k \in HeaderNames |->
        IF ToLower(k) \in HopByHop THEN dst[k] ELSE dst[k] \o src[k]]

----------------------------------------------------------------------------
(* pkg/proxy/provider.go *)

ProviderAnthropic == "anthropic"
ProviderOpenAI == "openai"
ProviderOllama == "ollama"
KnownProviders == {ProviderAnthropic, ProviderOpenAI, ProviderOllama}

\* InjectAuth without its two Header.Del calls
InjectAuthKeepsClientAuth(h, provider, apiKey) ==
    CASE provider = ProviderAnthropic -> HeaderSet(h, "X-Api-Key", apiKey)
      [] provider = ProviderOpenAI ->
            HeaderSet(h, "Authorization", BearerPrefix \o apiKey)
      [] OTHER -> h

\* InjectAuth that sends the key as a bearer token for an unknown provider
InjectAuthUnknownAsBearer(h, provider, apiKey) ==
    LET cleared == HeaderDel(HeaderDel(h, "Authorization"), "X-Api-Key")
    IN  CASE provider = ProviderAnthropic -> HeaderSet(cleared, "X-Api-Key", apiKey)
          [] provider = ProviderOllama -> cleared
          [] OTHER -> HeaderSet(cleared, "Authorization", BearerPrefix \o apiKey)

\* InjectAuth, on the header of the request
InjectAuth(h, provider, apiKey) ==
    LET cleared == HeaderDel(HeaderDel(h, "Authorization"), "X-Api-Key")
    IN  CASE provider = ProviderAnthropic -> HeaderSet(cleared, "X-Api-Key", apiKey)
          [] provider = ProviderOpenAI ->
                HeaderSet(cleared, "Authorization", BearerPrefix \o apiKey)
          [] OTHER -> cleared

DefaultUpstream(provider) ==
    CASE provider = ProviderAnthropic -> "https://api.anthropic.com"
      [] provider = ProviderOpenAI -> "https://api.openai.com"
      [] provider = ProviderOllama -> "http://localhost:11434"
      [] OTHER -> ""

----------------------------------------------------------------------------
(* pkg/session: Session and MemoryStore *)

NoSession == [none |-> TRUE]

Session(t, provider, key, url, sandbox) ==
    [Token |-> t, Provider |-> provider, APIKey |-> key, UpstreamURL |-> url,
     SandboxID |-> sandbox]

\* an upstream override http.NewRequestWithContext cannot parse
BadURL == "http://[bad"
Override == "http://upstream.local"

\* the session records of the model under token t
SessionsFor(t) ==
    { Session(t, ProviderAnthropic, K1, "", "sb-1"),
      Session(t, ProviderOpenAI, K2, "", "sb-2"),
      Session(t, ProviderOllama, K1, Override, ""),
      Session(t, ProviderOllama, K2, "", "sb-1"),
      Session(t, "other", K2, "", "sb-1"),
      Session(t, "other", K1, Override, "sb-2"),
      Session(t, ProviderOpenAI, K1, BadURL, "") }

EmptyStore == [t \in StoreKeys |-> NoSession]

\* MemoryStore.Register: whether it returns an error
RegisterFails(s) == s.Token = EmptyStr

\* Register that updates an existing record field by field, and not all fields
RegisterFieldwise(m, s) ==
    IF s.Token = EmptyStr THEN m
    ELSE [m EXCEPT ![s.Token] =
            IF @ = NoSession THEN s
            ELSE [@ EXCEPT !.Provider = s.Provider, !.APIKey = s.APIKey]]

\* Register that keeps the record a token already has
RegisterIfAbsent(m, s) ==
    IF s.Token = EmptyStr \/ m[s.Token] # NoSession THEN m
    ELSE [m EXCEPT ![s.Token] = s]

\* Register without the check of the token
RegisterEmptyToo(m, s) == [m EXCEPT ![s.Token] = s]

\* MemoryStore.Register: the map afterwards
Register(m, s) ==
    IF s.Token = EmptyStr THEN m ELSE [m EXCEPT ![s.Token] = s]

\* MemoryStore.Lookup: whether it returns a session (no error)
LookupOk(m, t) == m[t] # NoSession

\* MemoryStore.Lookup: the session returned
Lookup(m, t) == m[t]

\* Revoke that deletes nothing
RevokeNothing(m, t) == m

\* Revoke that deletes a record only when it is the only one
RevokeWhenAlone(m, t) ==
    IF \E k \in StoreKeys \ {t} : m[k] # NoSession THEN m
    ELSE [m EXCEPT ![t] = NoSession]

\* MemoryStore.Revoke: the map afterwards (it never returns an error)
Revoke(m, t) == [m EXCEPT ![t] = NoSession]

\* List that stops after the first session
ListFirstOnly(m) ==
    IF \A k \in StoreKeys : m[k] = NoSession THEN {}
    ELSE { m[CHOOSE k \in StoreKeys : m[k] # NoSession] }

\* MemoryStore.List: the sessions of the map, in no order
List(m) == { m[t] : t \in { k \in StoreKeys : m[k] # NoSession } }

----------------------------------------------------------------------------
(* pkg/session: Usage and UsageTracker *)

NoUsage == [none |-> TRUE]
ZeroUsage == [InputTokens |-> 0, OutputTokens |-> 0, Requests |-> 0]
EmptyUsage == [t \in StoreKeys |-> NoUsage]

\* Record that counts a call only when it adds tokens
AddUsageSkipsEmpty(cur, input, output) ==
    [InputTokens |-> cur.InputTokens + input,
     OutputTokens |-> cur.OutputTokens + output,
     Requests |-> cur.Requests + (IF input > 0 \/ output > 0 THEN 1 ELSE 0)]

\* UsageTracker.Record: the three additions, on the counters cur
AddUsage(cur, input, output) ==
    [InputTokens |-> cur.InputTokens + input,
     OutputTokens |-> cur.OutputTokens + output,
     Requests |-> cur.Requests + 1]

\* UsageTracker.Record: the map afterwards
Record(u, t, input, output) ==
    [u EXCEPT ![t] = AddUsage(IF u[t] = NoUsage THEN ZeroUsage ELSE u[t],
                              input, output)]

\* UsageTracker.Get: a copy of the counters, the zero record when there are none
Get(u, t) ==
    IF u[t] = NoUsage THEN ZeroUsage
    ELSE [InputTokens |-> u[t].InputTokens, OutputTokens |-> u[t].OutputTokens,
          Requests |-> u[t].Requests]

\* Get that returns the entry of the map when there is one
GetReturnsEntryIfAny(u, t) == u[t] # NoUsage

\* UsageTracker.Get: whether the *Usage returned is the entry of the map
\* (it never is: Get returns a new Usage in both branches)
GetReturnsEntry(u, t) == FALSE

\* UsageTracker.Clear: the map afterwards
Clear(u, t) == [u EXCEPT ![t] = NoUsage]

----------------------------------------------------------------------------
(* Response bodies.  A body is a sequence of lines; one Read of the body   *)
(* yields one line.  A line is the text of a payload, after "data: " when  *)
(* data is TRUE.  A payload is a JSON object with the four usage fields    *)
(* (0 when absent), the terminator [DONE], or text that is not JSON.       *)

Json(i, o, p, c) ==
    [kind |-> "json", input_tokens |-> i, output_tokens |-> o,
     prompt_tokens |-> p, completion_tokens |-> c]
NotJson == [kind |-> "text", input_tokens |-> 0, output_tokens |-> 0,
            prompt_tokens |-> 0, completion_tokens |-> 0]
DoneMark == [kind |-> "[DONE]", input_tokens |-> 0, output_tokens |-> 0,
             prompt_tokens |-> 0, completion_tokens |-> 0]

Line(data, payload) == [data |-> data, payload |-> payload]

\* json.Unmarshal(body, &envelope) succeeds: the body is one JSON object
Unmarshals(body) ==
    /\ Len(body) = 1
    /\ ~body[1].data
    /\ body[1].payload.kind = "json"

\* extractUsage that counts a body it cannot decode as one input token
extractUsageCountsMalformed(body, provider) ==
    IF ~Unmarshals(body) THEN <<1, 0>>
    ELSE LET u == body[1].payload
         IN  CASE provider = ProviderAnthropic ->
                    <<u.input_tokens, u.output_tokens>>
               [] provider = ProviderOpenAI ->
                    IF u.prompt_tokens > 0 \/ u.completion_tokens > 0
                    THEN <<u.prompt_tokens, u.completion_tokens>>
                    ELSE <<u.input_tokens, u.output_tokens>>
               [] OTHER ->
                    IF u.input_tokens > 0
                    THEN <<u.input_tokens, u.output_tokens>>
                    ELSE <<u.prompt_tokens, u.completion_tokens>>

\* extractUsage
extractUsage(body, provider) ==
    IF ~Unmarshals(body) THEN <<0, 0>>
    ELSE LET u == body[1].payload
         IN  CASE provider = ProviderAnthropic ->
                    <<u.input_tokens, u.output_tokens>>
               [] provider = ProviderOpenAI ->
                    IF u.prompt_tokens > 0 \/ u.completion_tokens > 0
                    THEN <<u.prompt_tokens, u.completion_tokens>>
                    ELSE <<u.input_tokens, u.output_tokens>>
               [] OTHER ->
                    IF u.input_tokens > 0
                    THEN <<u.input_tokens, u.output_tokens>>
                    ELSE <<u.prompt_tokens, u.completion_tokens>>

\* the loop of extractUsageFromSSE, from line i down to the first
RECURSIVE scanSSE(_, _, _)
scanSSE(lines, i, provider) ==
    IF i = 0 THEN <<0, 0>>
    ELSE IF ~lines[i].data THEN scanSSE(lines, i - 1, provider)
    ELSE IF lines[i].payload.kind = "[DONE]" THEN scanSSE(lines, i - 1, provider)
    ELSE LET u == extractUsage(<<Line(FALSE, lines[i].payload)>>, provider)
         IN  IF u[1] > 0 \/ u[2] > 0 THEN u
             ELSE scanSSE(lines, i - 1, provider)

\* a scan of the lines from the first to the last, up from line i
RECURSIVE scanSSEForward(_, _, _)
scanSSEForward(lines, i, provider) ==
    IF i > Len(lines) THEN <<0, 0>>
    ELSE IF ~lines[i].data THEN scanSSEForward(lines, i + 1, provider)
    ELSE IF lines[i].payload.kind = "[DONE]" THEN scanSSEForward(lines, i + 1, provider)
    ELSE LET u == extractUsage(<<Line(FALSE, lines[i].payload)>>, provider)
         IN  IF u[1] > 0 \/ u[2] > 0 THEN u
             ELSE scanSSEForward(lines, i + 1, provider)

\* extractUsageFromSSE that takes the first line with a usage, not the last
extractUsageFromSSEForward(data, provider) == scanSSEForward(data, 1, provider)

\* extractUsageFromSSE
extractUsageFromSSE(data, provider) == scanSSE(data, Len(data), provider)

EventStream == <<"text/event-stream">>
NDJson == <<"application/x-ndjson">>
AppJson == <<"application/json">>
Chunked == <<"chunked">>

\* isStreamingResponse
isStreamingResponse(r) ==
    \/ HasPrefix(HeaderGet(r.Header, "Content-Type"), EventStream)
    \/ Contains(HeaderGet(r.Header, "Content-Type"), NDJson)
    \/ HeaderGet(r.Header, "Transfer-Encoding") = Chunked

\* an upstream response
Response(code, ctype, body) ==
    [StatusCode |-> code,
     Header |-> [EmptyHeader EXCEPT !["Content-Type"] = <<ctype>>,
                                    !["Connection"] = <<<<"close">>>>],
     Body |-> body]

NoResponse == [none |-> TRUE]

----------------------------------------------------------------------------
(* pkg/proxy/proxy.go: Proxy.ServeHTTP *)

\* extractToken that takes the token of a Basic authorization as well
extractTokenAnyScheme(h) ==
    IF HasPrefix(HeaderGet(h, "Authorization"), BearerPrefix)
    THEN TrimPrefix(HeaderGet(h, "Authorization"), BearerPrefix)
    ELSE IF HasPrefix(HeaderGet(h, "Authorization"), <<"Basic ">>)
         THEN TrimPrefix(HeaderGet(h, "Authorization"), <<"Basic ">>)
         ELSE HeaderGet(h, "X-Api-Key")

\* extractToken
extractToken(h) ==
    IF HasPrefix(HeaderGet(h, "Authorization"), BearerPrefix)
    THEN TrimPrefix(HeaderGet(h, "Authorization"), BearerPrefix)
    ELSE IF HeaderGet(h, "X-Api-Key") # EmptyStr
         THEN HeaderGet(h, "X-Api-Key")
         ELSE EmptyStr

\* the header of a client request: its two credential headers and two others
ClientHeader(auth, key) ==
    [EmptyHeader EXCEPT !["Authorization"] = auth,
                        !["X-Api-Key"] = key,
                        !["Content-Type"] = <<AppJson>>,
                        !["Connection"] = <<<<"keep-alive">>>>]

ErrMissingAuth == <<"{\"error\":\"missing or invalid authorization header\"}">>
ErrInvalidToken == <<"{\"error\":\"invalid session token\"}">>
ErrUnknownProvider == <<"{\"error\":\"unknown provider\"}">>
ErrInternal == <<"{\"error\":\"internal error\"}">>
ErrUpstream == <<"{\"error\":\"upstream request failed\"}">>

NoBody == [kind |-> "none", text |-> EmptyStr, lines |-> <<>>]
\* http.Error(w, text, code): the body of the error response
ErrorBody(text) == [kind |-> "error", text |-> text, lines |-> <<>>]
\* the upstream body lines written to the client
RelayedBody(lines) == [kind |-> "relay", text |-> EmptyStr, lines |-> lines]

NoRequest == [none |-> TRUE]

StatusUnauthorized == 401
StatusBadRequest == 400
StatusInternalServerError == 500
StatusBadGateway == 502
StatusCreated == 201

\* the resolution with the default of the provider before the override
ResolveUpstreamDefaultFirst(s) ==
    IF DefaultUpstream(s.Provider) # "" THEN DefaultUpstream(s.Provider)
    ELSE s.UpstreamURL

\* the upstream base URL ServeHTTP resolves for session s
ResolveUpstream(s) ==
    IF s.UpstreamURL = "" THEN DefaultUpstream(s.Provider) ELSE s.UpstreamURL

\* ServeHTTP up to the call of httpClient.Do, for a request with header h
\* and the session map m: where it stands then, and what it holds
ServeUntilDispatch(h, m) ==
    LET tok == extractToken(h)
        reject(code, text, s) ==
            [pc |-> "done", token |-> tok, sess |-> s, upstream |-> "",
             out |-> NoRequest, status |-> code, cbody |-> ErrorBody(text)]
    IN  IF tok = EmptyStr
        THEN reject(StatusUnauthorized, ErrMissingAuth, NoSession)
        ELSE IF ~LookupOk(m, tok)
        THEN reject(StatusUnauthorized, ErrInvalidToken, NoSession)
        ELSE LET s == Lookup(m, tok)
             IN  IF ResolveUpstream(s) = ""
                 THEN reject(StatusBadRequest, ErrUnknownProvider, s)
                 ELSE IF ResolveUpstream(s) = BadURL
                 THEN reject(StatusInternalServerError, ErrInternal, s)
                 ELSE [pc |-> "dispatch", token |-> tok, sess |-> s,
                       upstream |-> ResolveUpstream(s),
                       out |-> InjectAuth(copyHeaders(EmptyHeader, h),
                                          s.Provider, s.APIKey),
                       status |-> 0, cbody |-> NoBody]

\* a ServeHTTP that records the usage in the relay and again after it
MeterRecordTwice(us, t, u) ==
    IF u[1] > 0 \/ u[2] > 0
    THEN Record(Record(us, t, u[1], u[2]), t, u[1], u[2]) ELSE us

\* ServeHTTP after the relay: the usage map once the usage u it extracted
\* is recorded for token t, which it is when a count is positive
MeterRecord(us, t, u) ==
    IF u[1] > 0 \/ u[2] > 0 THEN Record(us, t, u[1], u[2]) ELSE us

\* a relay that answers a failure in its middle with an error body
RelayedOrError(body, m) ==
    IF m < Len(body) THEN ErrorBody(ErrUpstream) ELSE RelayedBody(body)

\* what the client has of the body of the upstream when StreamResponse or
\* io.Copy returns, m lines having been written
RelayedToClient(body, m) == RelayedBody(SubSeq(body, 1, m))

\* the usage ServeHTTP extracts from the captured bytes of response r
MeteredUsage(r, captured, provider) ==
    IF isStreamingResponse(r) THEN extractUsageFromSSE(captured, provider)
    ELSE extractUsage(captured, provider)

----------------------------------------------------------------------------
(* pkg/server/server.go: the registration API *)

\* handleRegisterSession that takes a body without a provider
RegisterStatusProviderOptional(s) ==
    IF s.Token = EmptyStr \/ s.APIKey = EmptyStr THEN StatusBadRequest
    ELSE StatusCreated

\* handleRegisterSession: the status it answers with for the decoded body s
RegisterStatus(s) ==
    IF s.Token = EmptyStr \/ s.Provider = "" \/ s.APIKey = EmptyStr
    THEN StatusBadRequest
    ELSE IF RegisterFails(s) THEN StatusInternalServerError
    ELSE StatusCreated

\* handleRegisterSession: the session map afterwards
RegisterHandled(m, s) ==
    IF RegisterStatus(s) = StatusCreated THEN Register(m, s) ELSE m

\* a request body json.Decode returns an error for
MalformedBody == [malformed |-> TRUE]

\* the JSON keys of registerRequest
RegisterFields == {"token", "provider", "api_key", "upstream_url", "sandbox_id"}

\* json.Decode into registerRequest: a key the body lacks leaves the zero
\* value "" in its field; then the fields go into the session.Session
registerRequest(body) ==
    Session(IF "token" \in DOMAIN body THEN body.token ELSE EmptyStr,
            IF "provider" \in DOMAIN body THEN body.provider ELSE "",
            IF "api_key" \in DOMAIN body THEN body.api_key ELSE EmptyStr,
            IF "upstream_url" \in DOMAIN body THEN body.upstream_url ELSE "",
            IF "sandbox_id" \in DOMAIN body THEN body.sandbox_id ELSE "")

\* handleRegisterSession: the status it answers with for request body body
HandleRegisterStatus(body) ==
    IF body = MalformedBody THEN StatusBadRequest
    ELSE RegisterStatus(registerRequest(body))

\* handleRegisterSession: the session map afterwards, for request body body
HandleRegisterStore(m, body) ==
    IF body = MalformedBody THEN m
    ELSE RegisterHandled(m, registerRequest(body))

\* a handleRegisterSession that starts the counters of the token afresh
RegisterResetsUsage(u, s) ==
    IF RegisterStatus(s) = StatusCreated THEN Clear(u, s.Token) ELSE u

\* handleRegisterSession: the usage map afterwards (the handler calls
\* s.store.Register and nothing of the usage tracker)
RegisterHandledUsage(u, s) == u

\* handleRevokeSession: the session map afterwards, for path value t
RevokeHandled(m, t) ==
    IF t = EmptyStr THEN m ELSE Revoke(m, t)

\* handleRevokeSession: the usage map afterwards, for path value t
\* (the handler holds no usage tracker and makes no call of Clear)
RevokeHandledUsage(u, t) == u

\* sessionInfo with the key of the session in it
sessionInfoWithKey(s) ==
    [Token |-> s.Token, Provider |-> s.Provider, SandboxID |-> s.SandboxID,
     UpstreamURL |-> s.UpstreamURL, APIKey |-> s.APIKey]

\* sessionInfo: the entry of session s in the list response
sessionInfo(s) ==
    [Token |-> s.Token, Provider |-> s.Provider, SandboxID |-> s.SandboxID,
     UpstreamURL |-> s.UpstreamURL]

\* handleListSessions: the entries of the response body
ListHandled(m) == { sessionInfo(s) : s \in List(m) }

----------------------------------------------------------------------------
(* Inputs *)

\* the sessions the control plane registers in Spec
ConcSessions ==
    { Session(T1, ProviderAnthropic, K1, "", "sb-1"),
      Session(T1, ProviderOpenAI, K2, Override, "sb-2"),
      Session(T2, ProviderOllama, K1, "", "") }

\* the client request headers of Spec
ConcRequests ==
    { ClientHeader(<<>>, <<>>),
      ClientHeader(<<>>, <<T1>>),
      ClientHeader(<<BearerPrefix \o T2>>, <<>>) }

\* the upstream response of Spec
ConcResponses ==
    { Response(200, AppJson, <<Line(FALSE, Json(1, 2, 0, 0))>>) }

\* the session maps SpecPipeline starts from
PipelineStores ==
    { [EmptyStore EXCEPT ![T1] = a, ![T2] = b] :
        a \in SessionsFor(T1) \cup {NoSession},
        b \in {NoSession, Session(T2, ProviderAnthropic, K2, "", "sb-2")} }

\* the client request headers of SpecPipeline
PipelineRequests ==
    { ClientHeader(a, k) :
        a \in { <<>>, <<BearerPrefix \o T1>>, <<BearerPrefix \o T2>>,
                <<BearerPrefix>>, <<<<"Basic ">> \o T1>>,
                <<BearerPrefix \o SessionPrefix \o T1>>,
                <<BearerPrefix \o T2, BearerPrefix \o T1>> },
        k \in { <<>>, <<T1>>, <<T2>>, <<SessionPrefix \o T1>> } }
    \cup
    { [ClientHeader(<<>>, <<T1>>) EXCEPT
          !["Content-Type"] = <<AppJson, EventStream>>,
          !["Transfer-Encoding"] = <<Chunked>>] }

\* the upstream responses of SpecPipeline
PipelineResponses ==
    { Response(200, AppJson, <<Line(FALSE, Json(1, 2, 0, 0))>>),
      Response(200, AppJson, <<Line(FALSE, Json(0, 0, 2, 1))>>),
      Response(200, EventStream,
               <<Line(TRUE, Json(0, 0, 0, 0)), Line(TRUE, Json(3, 1, 0, 0)),
                 Line(TRUE, DoneMark)>>),
      Response(200, NDJson, <<Line(FALSE, Json(1, 1, 0, 0))>>),
      Response(200, AppJson, <<Line(FALSE, Json(0, 3, 2, 1))>>),
      Response(200, AppJson, <<Line(FALSE, Json(2, -3, 0, 0))>>),
      Response(200, AppJson, <<Line(FALSE, Json(0, 0, 0, 0))>>),
      [Response(200, AppJson, <<Line(FALSE, Json(1, 2, 0, 0))>>) EXCEPT
          !.Header["Content-Type"] = <<AppJson, NDJson>>,
          !.Header["Transfer-Encoding"] = <<Chunked>>],
      Response(500, AppJson, <<Line(FALSE, NotJson)>>) }

----------------------------------------------------------------------------
(* Actions of Spec and SpecPipeline *)

\* POST /v1/sessions with body s
HandleRegisterSession(s) ==
    /\ s \in registered \/ Cardinality(registered) < MaxRegisters
    /\ sessions' = RegisterHandled(sessions, s)
    /\ usage' = RegisterHandledUsage(usage, s)
    /\ registered' = IF RegisterStatus(s) = StatusCreated THEN registered \cup {s}
                     ELSE registered
    /\ revoked' = IF RegisterStatus(s) = StatusCreated
                  THEN [revoked EXCEPT ![s.Token] = FALSE] ELSE revoked
    /\ UNCHANGED <<extractVars, streamVars, proxyVars, storeHarnessVars, recordHarnessVars>>

\* DELETE /v1/sessions/{t}
HandleRevokeSession(t) ==
    /\ sessions' = RevokeHandled(sessions, t)
    /\ usage' = RevokeHandledUsage(usage, t)
    /\ revoked' = IF t = EmptyStr THEN revoked ELSE [revoked EXCEPT ![t] = TRUE]
    /\ UNCHANGED <<extractVars, streamVars, registered, proxyVars, storeHarnessVars, recordHarnessVars>>

\* ServeHTTP from its start to the call of httpClient.Do (or to its return
\* with an error response), the session lookup included
Begin(p, requests) ==
    /\ pc[p] = "idle"
    /\ \E h \in requests :
        LET o == ServeUntilDispatch(h, sessions)
        IN  /\ pc' = [pc EXCEPT ![p] = o.pc]
            /\ req' = [req EXCEPT ![p] = h]
            /\ token' = [token EXCEPT ![p] = o.token]
            /\ sess' = [sess EXCEPT ![p] = IF o.pc = "done" THEN NoSession ELSE o.sess]
            /\ upstream' = [upstream EXCEPT ![p] = o.upstream]
            /\ out' = [out EXCEPT ![p] = o.out]
            /\ status' = [status EXCEPT ![p] = o.status]
            /\ cbody' = [cbody EXCEPT ![p] = o.cbody]
            /\ staleLookup' = [staleLookup EXCEPT
                                 ![p] = o.token # EmptyStr /\ revoked[o.token]]
    /\ UNCHANGED <<extractVars, streamVars, sessions, usage, resp, dispatched, revoked, registered,
                   staleDispatch, storeHarnessVars, recordHarnessVars>>

\* a ServeHTTP that makes the upstream call again when it failed
AfterDoErrorRetry == "dispatch"

\* ServeHTTP: where it stands after httpClient.Do returned an error and the
\* 502 is written: it has returned
AfterDoError == "done"

\* httpClient.Do fails: 502
DispatchFails(p) ==
    /\ pc[p] = "dispatch"
    /\ dispatched' = [dispatched EXCEPT ![p] = TRUE]
    /\ staleDispatch' = [staleDispatch EXCEPT ![p] = revoked[token[p]]]
    /\ status' = [status EXCEPT ![p] = StatusBadGateway]
    /\ cbody' = [cbody EXCEPT ![p] = ErrorBody(ErrUpstream)]
    /\ pc' = [pc EXCEPT ![p] = AfterDoError]
    /\ sess' = [sess EXCEPT ![p] = NoSession]
    /\ upstream' = [upstream EXCEPT ![p] = ""]
    /\ out' = [out EXCEPT ![p] = NoRequest]
    /\ UNCHANGED <<extractVars, streamVars, sessions, usage, req, token, resp, revoked, registered,
                   staleLookup, storeHarnessVars, recordHarnessVars>>

\* httpClient.Do returns a response; its status goes to the client
Dispatch(p, responses) ==
    /\ pc[p] = "dispatch"
    /\ \E r \in responses :
        /\ resp' = [resp EXCEPT ![p] = r]
        /\ status' = [status EXCEPT ![p] = r.StatusCode]
    /\ dispatched' = [dispatched EXCEPT ![p] = TRUE]
    /\ staleDispatch' = [staleDispatch EXCEPT ![p] = revoked[token[p]]]
    /\ pc' = [pc EXCEPT ![p] = "relay"]
    /\ UNCHANGED <<extractVars, streamVars, sessions, usage, req, token, sess, upstream, out, cbody, revoked,
                   registered, staleLookup, storeHarnessVars, recordHarnessVars>>

\* StreamResponse or io.Copy through the metering reader, then the usage
\* extraction and UsageTracker.Record.  n lines are read from upstream and
\* captured, m of them are written to the client: m = n - 1 when the write
\* of line n fails, and n < Len(body) with m = n when the read after line n
\* fails.
RelayAndMeter(p) ==
    /\ pc[p] = "relay"
    /\ \E n \in 0..Len(resp[p].Body) : \E m \in {n - 1, n} \cap Nat :
        LET captured == SubSeq(resp[p].Body, 1, n)
            u == MeteredUsage(resp[p], captured, sess[p].Provider)
        IN  /\ usage' = MeterRecord(usage, token[p], u)
            /\ cbody' = [cbody EXCEPT ![p] = RelayedToClient(resp[p].Body, m)]
    /\ pc' = [pc EXCEPT ![p] = "done"]
    /\ sess' = [sess EXCEPT ![p] = NoSession]
    /\ upstream' = [upstream EXCEPT ![p] = ""]
    /\ out' = [out EXCEPT ![p] = NoRequest]
    /\ UNCHANGED <<extractVars, streamVars, sessions, req, token, resp, status, dispatched, revoked,
                   registered, staleLookup, staleDispatch, storeHarnessVars,
                   recordHarnessVars>>

NoCall == [op |-> "none"]

InitProxy ==
    /\ pc = [p \in Procs |-> "idle"]
    /\ req = [p \in Procs |-> NoRequest]
    /\ token = [p \in Procs |-> EmptyStr]
    /\ sess = [p \in Procs |-> NoSession]
    /\ upstream = [p \in Procs |-> ""]
    /\ out = [p \in Procs |-> NoRequest]
    /\ resp = [p \in Procs |-> NoResponse]
    /\ status = [p \in Procs |-> 0]
    /\ cbody = [p \in Procs |-> NoBody]
    /\ dispatched = [p \in Procs |-> FALSE]
    /\ staleLookup = [p \in Procs |-> FALSE]
    /\ staleDispatch = [p \in Procs |-> FALSE]

InitStoreHarness ==
    /\ last = NoCall
    /\ prev = NoCall
    /\ before = EmptyStore

InitRecordHarness ==
    /\ mu = [writer |-> 0, readers |-> {}]
    /\ cpc = [c \in Callers |-> "idle"]
    /\ cop = [c \in Callers |-> NoCall]
    /\ cloc = [c \in Callers |-> NoUsage]

\* no call of StreamResponse is modelled outside SpecStream
InitStreamIdle ==
    /\ srcReads = <<>>
    /\ canFlush = TRUE
    /\ nread = 0
    /\ spc = "returned"
    /\ wlog = <<>>
    /\ srcErr = "EOF"
    /\ hpc = "idle"
    /\ closed = 0
    /\ mrBuf = <<>>
    /\ client = <<>>
    /\ metered = <<>>

NoResult == <<>>

\* no call of extractUsageFromSSE is modelled outside SpecExtract
InitExtractIdle ==
    /\ ebody = <<>>
    /\ eprov = ""
    /\ eres = NoResult

Init ==
    /\ sessions = EmptyStore
    /\ usage = EmptyUsage
    /\ revoked = [t \in StoreKeys |-> FALSE]
    /\ registered = {}
    /\ InitProxy
    /\ InitStoreHarness
    /\ InitRecordHarness
    /\ InitStreamIdle
    /\ InitExtractIdle

Next ==
    \/ \E s \in ConcSessions : HandleRegisterSession(s)
    \/ \E t \in {T1, T2} : HandleRevokeSession(t)
    \/ \E p \in Procs : Begin(p, ConcRequests)
    \/ \E p \in Procs : DispatchFails(p)
    \/ \E p \in Procs : Dispatch(p, ConcResponses)
    \/ \E p \in Procs : RelayAndMeter(p)

Spec == Init /\ [][Next]_vars

InitPipeline ==
    /\ sessions \in PipelineStores
    /\ usage = EmptyUsage
    /\ revoked = [t \in StoreKeys |-> FALSE]
    /\ registered = List(sessions)
    /\ InitProxy
    /\ InitStoreHarness
    /\ InitRecordHarness
    /\ InitStreamIdle
    /\ InitExtractIdle

NextPipeline ==
    \/ Begin(1, PipelineRequests)
    \/ DispatchFails(1)
    \/ Dispatch(1, PipelineResponses)
    \/ RelayAndMeter(1)

SpecPipeline == InitPipeline /\ [][NextPipeline]_vars

----------------------------------------------------------------------------
(* SpecStore: one caller makes calls of MemoryStore, one after the other; *)
(* the last two calls and the map before the last call are kept.           *)

\* the sessions the caller registers: some with each token, one with the
\* empty token
StoreInputs ==
    { Session(T1, ProviderAnthropic, K1, "", "sb-1"),
      Session(T1, ProviderOpenAI, K2, Override, "sb-2"),
      Session(T1, "other", K2, "", ""),
      Session(T2, ProviderOllama, K1, "", "sb-1"),
      Session(EmptyStr, ProviderAnthropic, K1, "", "sb-1") }

Call(op, t, arg, ok, ret, list) ==
    [op |-> op, token |-> t, arg |-> arg, ok |-> ok, ret |-> ret, list |-> list]

CallRegister(s) ==
    /\ sessions' = Register(sessions, s)
    /\ last' = Call("register", s.Token, s, ~RegisterFails(s), NoSession, {})
    /\ prev' = last
    /\ before' = sessions
    /\ UNCHANGED <<extractVars, streamVars, usage, revoked, registered, proxyVars, recordHarnessVars>>

CallLookup(t) ==
    /\ last' = Call("lookup", t, NoSession, LookupOk(sessions, t),
                    Lookup(sessions, t), {})
    /\ prev' = last
    /\ before' = sessions
    /\ UNCHANGED <<extractVars, streamVars, sessions, usage, revoked, registered, proxyVars,
                   recordHarnessVars>>

CallRevoke(t) ==
    /\ sessions' = Revoke(sessions, t)
    /\ last' = Call("revoke", t, NoSession, TRUE, NoSession, {})
    /\ prev' = last
    /\ before' = sessions
    /\ UNCHANGED <<extractVars, streamVars, usage, revoked, registered, proxyVars, recordHarnessVars>>

CallList ==
    /\ last' = Call("list", EmptyStr, NoSession, TRUE, NoSession, List(sessions))
    /\ prev' = last
    /\ before' = sessions
    /\ UNCHANGED <<extractVars, streamVars, sessions, usage, revoked, registered, proxyVars,
                   recordHarnessVars>>

NextStore ==
    \/ \E s \in StoreInputs : CallRegister(s)
    \/ \E t \in StoreKeys : CallLookup(t)
    \/ \E t \in StoreKeys : CallRevoke(t)
    \/ CallList

\* the usage trackers SpecStore starts from: a fresh one, and one that has
\* recorded a request of T1
StoreTrackers ==
    { EmptyUsage, Record(EmptyUsage, T1, 1, 2) }

InitStore ==
    /\ sessions = EmptyStore
    /\ usage \in StoreTrackers
    /\ revoked = [t \in StoreKeys |-> FALSE]
    /\ registered = {}
    /\ InitProxy
    /\ InitStoreHarness
    /\ InitRecordHarness
    /\ InitStreamIdle
    /\ InitExtractIdle

SpecStore == InitStore /\ [][NextStore]_vars

----------------------------------------------------------------------------
(* SpecRecord: concurrent calls of UsageTracker.Record and UsageTracker.Get, *)
(* with the sync.RWMutex of the tracker and each access of the map a step.   *)

\* the (input, output) pairs the callers record
Deltas == {<<1, 2>>, <<3, 0>>, <<0, 0>>}

RecordCalls ==
    { [op |-> "record", token |-> t, input |-> d[1], output |-> d[2]] :
        t \in {T1, T2}, d \in Deltas }
GetCalls ==
    { [op |-> "get", token |-> t, input |-> 0, output |-> 0] : t \in {T1, T2} }

\* Record without the mutex
CanLockAlways(m) == TRUE

\* mu.Lock() can return: nobody holds the mutex
CanLock(m) == m.writer = 0 /\ m.readers = {}

\* mu.RLock() can return: no writer holds the mutex
CanRLock(m) == m.writer = 0

\* a caller starts one call
CallStart(c) ==
    /\ cpc[c] = "idle"
    /\ \E call \in RecordCalls \cup GetCalls : cop' = [cop EXCEPT ![c] = call]
    /\ cpc' = [cpc EXCEPT ![c] = "lock"]
    /\ UNCHANGED <<extractVars, streamVars, sessions, usage, revoked, registered, proxyVars,
                   storeHarnessVars, mu, cloc>>

\* Record: u.mu.Lock()
RecordLock(c) ==
    /\ cpc[c] = "lock" /\ cop[c].op = "record"
    /\ CanLock(mu)
    /\ mu' = [mu EXCEPT !.writer = c]
    /\ cpc' = [cpc EXCEPT ![c] = "load"]
    /\ UNCHANGED <<extractVars, streamVars, sessions, usage, revoked, registered, proxyVars,
                   storeHarnessVars, cop, cloc>>

\* Record: the entry of the token is read, a zero entry is made when there
\* is none, and the counters are read for the additions
RecordLoad(c) ==
    /\ cpc[c] = "load"
    /\ usage' = IF usage[cop[c].token] = NoUsage
                THEN [usage EXCEPT ![cop[c].token] = ZeroUsage] ELSE usage
    /\ cloc' = [cloc EXCEPT ![c] = usage'[cop[c].token]]
    /\ cpc' = [cpc EXCEPT ![c] = "store"]
    /\ UNCHANGED <<extractVars, streamVars, sessions, revoked, registered, proxyVars, storeHarnessVars,
                   mu, cop>>

\* Record: usage.InputTokens += input
RecordStore(c) ==
    /\ cpc[c] = "store"
    /\ usage' = [usage EXCEPT ![cop[c].token].InputTokens =
                    AddUsage(cloc[c], cop[c].input, cop[c].output).InputTokens]
    /\ cpc' = [cpc EXCEPT ![c] = "storeOutput"]
    /\ UNCHANGED <<extractVars, streamVars, sessions, revoked, registered, proxyVars, storeHarnessVars,
                   mu, cop, cloc>>

\* Record: usage.OutputTokens += output
RecordStoreOutput(c) ==
    /\ cpc[c] = "storeOutput"
    /\ usage' = [usage EXCEPT ![cop[c].token].OutputTokens =
                    AddUsage(cloc[c], cop[c].input, cop[c].output).OutputTokens]
    /\ cpc' = [cpc EXCEPT ![c] = "storeRequests"]
    /\ UNCHANGED <<extractVars, streamVars, sessions, revoked, registered, proxyVars, storeHarnessVars,
                   mu, cop, cloc>>

\* Record: usage.Requests++
RecordStoreRequests(c) ==
    /\ cpc[c] = "storeRequests"
    /\ usage' = [usage EXCEPT ![cop[c].token].Requests =
                    AddUsage(cloc[c], cop[c].input, cop[c].output).Requests]
    /\ cpc' = [cpc EXCEPT ![c] = "unlock"]
    /\ UNCHANGED <<extractVars, streamVars, sessions, revoked, registered, proxyVars, storeHarnessVars,
                   mu, cop, cloc>>

\* Record: the deferred u.mu.Unlock()
RecordUnlock(c) ==
    /\ cpc[c] = "unlock"
    /\ mu' = [mu EXCEPT !.writer = 0]
    /\ cpc' = [cpc EXCEPT ![c] = "done"]
    /\ UNCHANGED <<extractVars, streamVars, sessions, usage, revoked, registered, proxyVars,
                   storeHarnessVars, cop, cloc>>

\* Get: u.mu.RLock()
GetRLock(c) ==
    /\ cpc[c] = "lock" /\ cop[c].op = "get"
    /\ CanRLock(mu)
    /\ mu' = [mu EXCEPT !.readers = @ \cup {c}]
    /\ cpc' = [cpc EXCEPT ![c] = "read"]
    /\ UNCHANGED <<extractVars, streamVars, sessions, usage, revoked, registered, proxyVars,
                   storeHarnessVars, cop, cloc>>

\* Get: the copy of the counters is made
GetRead(c) ==
    /\ cpc[c] = "read"
    /\ cloc' = [cloc EXCEPT ![c] = Get(usage, cop[c].token)]
    /\ cpc' = [cpc EXCEPT ![c] = "runlock"]
    /\ UNCHANGED <<extractVars, streamVars, sessions, usage, revoked, registered, proxyVars,
                   storeHarnessVars, mu, cop>>

\* Get: the deferred u.mu.RUnlock()
GetRUnlock(c) ==
    /\ cpc[c] = "runlock"
    /\ mu' = [mu EXCEPT !.readers = @ \ {c}]
    /\ cpc' = [cpc EXCEPT ![c] = "done"]
    /\ UNCHANGED <<extractVars, streamVars, sessions, usage, revoked, registered, proxyVars,
                   storeHarnessVars, cop, cloc>>

\* the caller of Get changes the Usage it was given
GetMutate(c) ==
    /\ cpc[c] = "done" /\ cop[c].op = "get"
    /\ cloc' = [cloc EXCEPT ![c].Requests = @ + 1]
    /\ usage' = IF GetReturnsEntry(usage, cop[c].token)
                THEN [usage EXCEPT ![cop[c].token] = cloc'[c]] ELSE usage
    /\ cpc' = [cpc EXCEPT ![c] = "changed"]
    /\ UNCHANGED <<extractVars, streamVars, sessions, revoked, registered, proxyVars, storeHarnessVars,
                   mu, cop>>

NextRecord ==
    \/ \E c \in Callers : CallStart(c)
    \/ \E c \in Callers : RecordLock(c)
    \/ \E c \in Callers : RecordLoad(c)
    \/ \E c \in Callers : RecordStore(c)
    \/ \E c \in Callers : RecordStoreOutput(c)
    \/ \E c \in Callers : RecordStoreRequests(c)
    \/ \E c \in Callers : RecordUnlock(c)
    \/ \E c \in Callers : GetRLock(c)
    \/ \E c \in Callers : GetRead(c)
    \/ \E c \in Callers : GetRUnlock(c)
    \/ \E c \in Callers : GetMutate(c)

SpecRecord == Init /\ [][NextRecord]_vars

----------------------------------------------------------------------------
(* SpecStream: one call of StreamResponse (pkg/proxy/streaming.go), each   *)
(* Read, Write and Flush a step.  A read returns a chunk (n bytes, n = 0   *)
(* for the empty chunk) and maybe an error (io.EOF included); a write      *)
(* succeeds or fails.  The call is the one ServeHTTP makes on the body of  *)
(* the upstream response; when it has returned ServeHTTP returns, and its  *)
(* deferred resp.Body.Close() runs.                                        *)

\* the calls of body.Read of one source, at most
MaxReads == 3

\* the chunks a read can return
Chunks == {<<>>, <<"a">>, <<"b", "c">>}

\* the results of body.Read
ReadResults == [chunk : Chunks, err : BOOLEAN]

\* the sources: the last read returns an error or io.EOF, the others none
Sources ==
    UNION { { r \in [1..n -> ReadResults] : \A i \in 1..n : r[i].err = (i = n) } :
              n \in 1..MaxReads }

ReadEvent(r) == [ev |-> "read", chunk |-> r.chunk, ok |-> ~r.err]
WriteEvent(chunk, ok) == [ev |-> "write", chunk |-> chunk, ok |-> ok]
FlushEvent == [ev |-> "flush", chunk |-> <<>>, ok |-> TRUE]

\* the loop that looks at the error of a read before it writes its bytes
AfterReadErrFirst(r) ==
    IF r.err THEN "returned" ELSE IF Len(r.chunk) > 0 THEN "write" ELSE "read"

\* StreamResponse: where the loop goes after body.Read returned r
AfterRead(r) ==
    IF Len(r.chunk) > 0 THEN "write" ELSE IF r.err THEN "returned" ELSE "read"

\* StreamResponse: where the loop goes after the write and flush of r's bytes
AfterWrite(r) == IF r.err THEN "returned" ELSE "read"

\* the loop that goes on after a write that failed
AfterWriteResultIgnoresErr(ok, flush, r) ==
    IF flush THEN "flush" ELSE AfterWrite(r)

\* StreamResponse: where the loop goes after w.Write of r's bytes returned,
\* without an error (ok) or with one, the writer being a flusher or not
AfterWriteResult(ok, flush, r) ==
    IF ~ok THEN "returned"
    ELSE IF flush THEN "flush"
    ELSE AfterWrite(r)

\* the errors a source ends with: the end of the stream, and a failure of
\* the upstream connection
SourceErrors == {"EOF", "unexpected EOF"}

\* a ServeHTTP without the defer: the body is closed after a relay in which
\* no write failed
CloseUnlessWriteFailed(l) ==
    IF \E i \in DOMAIN l : l[i].ev = "write" /\ ~l[i].ok THEN 0 ELSE 1

\* ServeHTTP: the calls of resp.Body.Close() its deferred call makes when
\* it returns after a relay with the log l
DeferredClose(l) == 1

\* a metering reader that keeps no copy of the bytes a failing read returns
CaptureUnlessErr(buf, r) == IF r.err THEN buf ELSE buf \o r.chunk

\* meteringReader.Read: the buffer after the wrapped reader returned r
\* (n > 0: buf.Write(p[:n]); appending the empty chunk changes nothing)
Capture(buf, r) == buf \o r.chunk

\* meteringReader.Bytes
Bytes(buf) == buf

\* what the connection has taken of the chunk c when w.Write(c) returns:
\* all of it without an error, any part of it with one
Taken(c, ok) ==
    IF ok THEN {c} ELSE { SubSeq(c, 1, k) : k \in 0..Len(c) }

nonStreamVars == <<sessions, usage, revoked, registered, proxyVars,
                   storeHarnessVars, recordHarnessVars, extractVars>>

\* n, err := body.Read(buf)
StreamRead ==
    /\ spc = "read"
    /\ nread' = nread + 1
    /\ wlog' = Append(wlog, ReadEvent(srcReads[nread']))
    /\ mrBuf' = Capture(mrBuf, srcReads[nread'])
    /\ spc' = AfterRead(srcReads[nread'])
    /\ UNCHANGED <<nonStreamVars, srcReads, canFlush, srcErr, hpc, closed, client, metered>>

\* w.Write(buf[:n]): it fails and StreamResponse returns, or it succeeds
StreamWrite ==
    /\ spc = "write"
    /\ \E ok \in BOOLEAN :
        /\ wlog' = Append(wlog, WriteEvent(srcReads[nread].chunk, ok))
        /\ \E got \in Taken(srcReads[nread].chunk, ok) : client' = client \o got
        /\ spc' = AfterWriteResult(ok, canFlush, srcReads[nread])
    /\ UNCHANGED <<nonStreamVars, srcReads, canFlush, nread, srcErr, hpc, closed,
                   mrBuf, metered>>

\* flusher.Flush()
StreamFlush ==
    /\ spc = "flush"
    /\ wlog' = Append(wlog, FlushEvent)
    /\ spc' = AfterWrite(srcReads[nread])
    /\ UNCHANGED <<nonStreamVars, srcReads, canFlush, nread, srcErr, hpc, closed,
                   mrBuf, client, metered>>

\* StreamResponse has returned: ServeHTTP hands mr.Bytes() to the usage
\* extraction and returns, and its deferred resp.Body.Close() runs
StreamClose ==
    /\ spc = "returned" /\ hpc = "relay"
    /\ metered' = Bytes(mrBuf)
    /\ closed' = closed + DeferredClose(wlog)
    /\ hpc' = "returned"
    /\ UNCHANGED <<nonStreamVars, srcReads, canFlush, nread, spc, wlog, srcErr,
                   mrBuf, client>>

InitStream ==
    /\ sessions = EmptyStore
    /\ usage = EmptyUsage
    /\ revoked = [t \in StoreKeys |-> FALSE]
    /\ registered = {}
    /\ InitProxy
    /\ InitStoreHarness
    /\ InitRecordHarness
    /\ srcReads \in Sources
    /\ canFlush \in BOOLEAN
    /\ nread = 0
    /\ spc = "read"
    /\ wlog = <<>>
    /\ srcErr \in SourceErrors
    /\ hpc = "relay"
    /\ closed = 0
    /\ mrBuf = <<>>
    /\ client = <<>>
    /\ metered = <<>>
    /\ InitExtractIdle

NextStream ==
    \/ StreamRead
    \/ StreamWrite
    \/ StreamFlush
    \/ StreamClose

SpecStream == InitStream /\ [][NextStream]_vars

\* the goroutine of the handler takes its next step as long as it has one:
\* every Read, Write and Flush of the model returns
SpecStreamFair == SpecStream /\ WF_vars(NextStream)

----------------------------------------------------------------------------
(* SpecApi: one caller of the registration API makes its calls one after   *)
(* the other; the last call, its answer and the session map before it are  *)
(* kept in last and before.                                                *)

\* a request body with every key of registerRequest
FullBody(t, provider, key) ==
    [token |-> t, provider |-> provider, api_key |-> key,
     upstream_url |-> Override, sandbox_id |-> "sb-1"]

\* the request bodies of POST /v1/sessions: a malformed one, and JSON objects
\* with any of the five keys, the required ones empty or not
ApiBodies ==
    {MalformedBody} \cup
    { [f \in F |-> FullBody(t, provider, key)[f]] :
        F \in SUBSET RegisterFields, t \in {T1, EmptyStr},
        provider \in {ProviderAnthropic, ""}, key \in {K1, EmptyStr} }

\* POST /v1/sessions with request body body
ApiRegister(body) ==
    /\ sessions' = HandleRegisterStore(sessions, body)
    /\ last' = [op |-> "handleRegister", body |-> body,
                status |-> HandleRegisterStatus(body)]
    /\ before' = sessions
    /\ UNCHANGED <<extractVars, streamVars, prev, usage, revoked, registered, proxyVars, recordHarnessVars>>

\* DELETE /v1/sessions/{t}
ApiRevoke(t) ==
    /\ sessions' = RevokeHandled(sessions, t)
    /\ last' = [op |-> "handleRevoke", body |-> MalformedBody,
                status |-> IF t = EmptyStr THEN StatusBadRequest ELSE 200]
    /\ before' = sessions
    /\ UNCHANGED <<extractVars, streamVars, prev, usage, revoked, registered, proxyVars, recordHarnessVars>>

NextApi ==
    \/ \E body \in ApiBodies : ApiRegister(body)
    \/ \E t \in {T1, EmptyStr} : ApiRevoke(t)

SpecApi == Init /\ [][NextApi]_vars

----------------------------------------------------------------------------
(* SpecExtract: one call of extractUsageFromSSE on the captured lines of a *)
(* stream.                                                                 *)

\* the lines of a captured stream, at most
MaxFrames == 3

\* the lines of a stream: events whose payload is JSON with no usage, with
\* scheme-A usage (two of them), with scheme-B usage, that is [DONE] or no
\* JSON, and lines that are no data line, with text or with JSON in them
FrameLines ==
    { Line(TRUE, Json(0, 0, 0, 0)), Line(TRUE, Json(3, 1, 0, 0)),
      Line(TRUE, Json(1, 2, 0, 0)), Line(TRUE, Json(0, 0, 2, 1)),
      Line(TRUE, DoneMark), Line(TRUE, NotJson),
      Line(FALSE, NotJson), Line(FALSE, Json(4, 4, 4, 4)) }

\* the captured streams
FrameStreams == UNION { [1..n -> FrameLines] : n \in 0..MaxFrames }

\* input, output := extractUsageFromSSE(mr.Bytes(), sess.Provider)
ExtractFromSSE ==
    /\ eres = NoResult
    /\ eres' = extractUsageFromSSE(ebody, eprov)
    /\ UNCHANGED <<sessions, usage, revoked, registered, proxyVars,
                   storeHarnessVars, recordHarnessVars, streamVars, ebody, eprov>>

InitExtract ==
    /\ sessions = EmptyStore
    /\ usage = EmptyUsage
    /\ revoked = [t \in StoreKeys |-> FALSE]
    /\ registered = {}
    /\ InitProxy
    /\ InitStoreHarness
    /\ InitRecordHarness
    /\ InitStreamIdle
    /\ ebody \in FrameStreams
    /\ eprov \in {ProviderAnthropic, ProviderOpenAI, "other"}
    /\ eres = NoResult

NextExtract == ExtractFromSSE

SpecExtract == InitExtract /\ [][NextExtract]_vars

----------------------------------------------------------------------------
(* Properties *)

CredentialHeaders == {"Authorization", "X-Api-Key"}

\* string part occurs in a value of header k of h
InHeader(h, k, part) == \E i \in DOMAIN h[k] : Contains(h[k][i], part)

\* a real key occurs in string v
KeyIn(v) == \E k \in Keys : Contains(v, k)

\* the request of p is built or sent, and not yet answered in full
InFlight(p) == pc[p] \in {"dispatch", "relay"}

\* C1 (SpecPipeline): the request built for, and handed to, the upstream of a
\* session of a known provider has x-api-key = <key> and no Authorization
\* (anthropic), Authorization = "Bearer "+<key> and no x-api-key (openai), or
\* neither (ollama); the token the client presented is in neither header.
C1_OutboundAuth ==
    \A p \in Procs :
        (InFlight(p) /\ sess[p].Provider \in KnownProviders) =>
            /\ out[p]["X-Api-Key"] =
                  IF sess[p].Provider = ProviderAnthropic
                  THEN <<sess[p].APIKey>> ELSE <<>>
            /\ out[p]["Authorization"] =
                  IF sess[p].Provider = ProviderOpenAI
                  THEN <<BearerPrefix \o sess[p].APIKey>> ELSE <<>>
            /\ \A k \in CredentialHeaders : ~InHeader(out[p], k, token[p])

\* the scenario of the spec: the client presented the token in x-api-key, the
\* session is an anthropic one, and the request went upstream with the key
C1_Witness ==
    \E p \in Procs :
        /\ pc[p] = "relay" /\ dispatched[p]
        /\ sess[p].Provider = ProviderAnthropic
        /\ req[p]["X-Api-Key"] = <<token[p]>>
        /\ InHeader(req[p], "Authorization", token[p])
        /\ out[p]["X-Api-Key"] = <<K1>>

\* every session of map m with key k in place of its own
ReKey(m, k) ==
    [t \in StoreKeys |->
        IF m[t] = NoSession THEN NoSession ELSE [m[t] EXCEPT !.APIKey = k]]

\* the header of the response the client of p gets: that of http.Error, or
\* the upstream's header as copyHeaders copies it
ClientResponseHeader(p) ==
    IF cbody[p].kind = "error" \/ resp[p] = NoResponse
    THEN [EmptyHeader EXCEPT !["Content-Type"] = <<<<"text/plain; charset=utf-8">>>>]
    ELSE copyHeaders(EmptyHeader, resp[p].Header)

\* C2 (SpecPipeline): no real key occurs in what the proxy answers: not in an
\* error body, not in a header, not in an entry of the list response (which
\* has no key field); the body relayed is a prefix of the upstream's and the
\* status is the upstream's or one of the proxy's four; and the answers of
\* ServeHTTP and of the list operation are the same with any other key in
\* the sessions.
C2_KeyNeverInResponse ==
    /\ \A p \in Procs :
        /\ ~KeyIn(cbody[p].text)
        /\ \A k \in HeaderNames : \A i \in DOMAIN ClientResponseHeader(p)[k] :
               ~KeyIn(ClientResponseHeader(p)[k][i])
        /\ cbody[p].kind = "error" =>
               /\ cbody[p].text \in {ErrMissingAuth, ErrInvalidToken,
                                     ErrUnknownProvider, ErrInternal, ErrUpstream}
               /\ status[p] \in {StatusUnauthorized, StatusBadRequest,
                                 StatusInternalServerError, StatusBadGateway}
        /\ cbody[p].kind = "relay" =>
               /\ status[p] = resp[p].StatusCode
               /\ \E m \in 0..Len(resp[p].Body) :
                      cbody[p].lines = SubSeq(resp[p].Body, 1, m)
    /\ \A e \in ListHandled(sessions) :
        /\ DOMAIN e = {"Token", "Provider", "SandboxID", "UpstreamURL"}
        /\ ~KeyIn(e.Token)
    /\ \A k \in Keys :
        /\ ListHandled(ReKey(sessions, k)) = ListHandled(sessions)
        /\ \A h \in PipelineRequests :
               LET a == ServeUntilDispatch(h, sessions)
                   b == ServeUntilDispatch(h, ReKey(sessions, k))
               IN  a.pc = b.pc /\ a.status = b.status /\ a.cbody = b.cbody

\* a request of a registered session was answered with an error of the proxy
C2_Witness ==
    \E p \in Procs :
        /\ pc[p] = "done"
        /\ status[p] = StatusBadRequest
        /\ sessions[token[p]] # NoSession
        /\ sessions[token[p]].APIKey \in Keys
        /\ ListHandled(sessions) # {}

\* C3 (Spec): a request whose session lookup ran while its token was revoked
\* (a revoke returned, no register followed) is answered 401 at once, and no
\* upstream request is made for it.
C3_RevokedTokenRejected ==
    \A p \in Procs :
        staleLookup[p] =>
            /\ pc[p] = "done"
            /\ status[p] = StatusUnauthorized
            /\ cbody[p] = ErrorBody(ErrInvalidToken)
            /\ ~dispatched[p]

\* the token was registered, then revoked, and a request presented it
C3_Witness ==
    \E p \in Procs :
        /\ staleLookup[p]
        /\ \E s \in registered : s.Token = token[p]

\* C4 (Spec), as claimed: no request is handed to the upstream with the real
\* key of a session whose token was revoked when httpClient.Do was called.
C4_NoDispatchAfterRevoke ==
    \A p \in Procs :
        (pc[p] = "relay" /\ staleDispatch[p]) =>
            \A k \in CredentialHeaders : ~InHeader(out[p], k, sess[p].APIKey)

\* C5 (Spec), as claimed: when DELETE /v1/sessions/{t} completes and no
\* request is in flight, UsageTracker.Get(t) is the zero record.
C5_RevokeClearsUsage ==
    [][\A t \in {T1, T2} :
          (HandleRevokeSession(t) /\ \A p \in Procs : ~InFlight(p)) =>
              Get(usage', t) = ZeroUsage]_vars

\* the callers of Record on token t whose additions are in the map
Recorded(t) ==
    { c \in Callers : /\ cop[c].op = "record" /\ cop[c].token = t
                      /\ cpc[c] \in {"unlock", "done"} }

\* the sum of field f of the calls of the callers in S
RECURSIVE SumCalls(_, _)
SumCalls(S, f) ==
    IF S = {} THEN 0
    ELSE LET c == CHOOSE x \in S : TRUE
         IN  cop[c][f] + SumCalls(S \ {c}, f)

\* no caller is between the read and the write of Record
NoRecordUnderWay ==
    \A c \in Callers :
        cpc[c] \notin {"load", "store", "storeOutput", "storeRequests"}

\* C6 (SpecRecord): whenever no Record is between its read and its write,
\* the counters of each token are the sums over the Record calls made on it:
\* N calls of record(t, i, o) give N*i, N*o and N requests.
C6_NoLostUpdate ==
    NoRecordUnderWay =>
        \A t \in {T1, T2} :
            Get(usage, t) = [InputTokens |-> SumCalls(Recorded(t), "input"),
                             OutputTokens |-> SumCalls(Recorded(t), "output"),
                             Requests |-> Cardinality(Recorded(t))]

\* every caller has recorded (1, 2) on T1, concurrently
C6_Witness ==
    /\ \A c \in Callers :
        /\ cpc[c] = "done"
        /\ cop[c] = [op |-> "record", token |-> T1, input |-> 1, output |-> 2]
    /\ usage[T1] = [InputTokens |-> NumCallers, OutputTokens |-> 2 * NumCallers,
                    Requests |-> NumCallers]

\* C7 (Spec): the session a request got from Lookup equals, in all fields,
\* a record that was registered, under the token it presented.
C7_LookupReturnsRegistered ==
    \A p \in Procs :
        sess[p] # NoSession =>
            /\ sess[p] \in registered
            /\ sess[p].Token = token[p]

\* a lookup returned a record of a token registered with two records
C7_Witness ==
    \E p \in Procs :
        /\ sess[p] # NoSession
        /\ Cardinality({ s \in registered : s.Token = token[p] }) >= 2

\* C8 (SpecStore): Lookup(t) right after Register of a session with the
\* non-empty token t succeeds and returns the session registered, field by
\* field.
C8_LookupAfterRegister ==
    (/\ last.op = "lookup" /\ prev.op = "register"
     /\ prev.token = last.token /\ prev.token # EmptyStr) =>
        /\ prev.ok /\ last.ok
        /\ last.ret.Token = prev.arg.Token
        /\ last.ret.Provider = prev.arg.Provider
        /\ last.ret.APIKey = prev.arg.APIKey
        /\ last.ret.UpstreamURL = prev.arg.UpstreamURL
        /\ last.ret.SandboxID = prev.arg.SandboxID

\* a lookup right after the register of a token that had another record
C8_Witness ==
    /\ last.op = "lookup" /\ prev.op = "register"
    /\ prev.token = last.token /\ prev.token = T1
    /\ last.ret = Session(T1, ProviderOpenAI, K2, Override, "sb-2")
    /\ Cardinality(List(sessions)) = 2

\* C9 (SpecStore): Revoke never fails; right after it Lookup of the token
\* fails; a second Revoke of the token leaves the map as the first left it.
C9_RevokeIdempotent ==
    /\ last.op = "revoke" => (last.ok /\ ~LookupOk(sessions, last.token))
    /\ (last.op = "lookup" /\ prev.op = "revoke" /\ prev.token = last.token) =>
           ~last.ok
    /\ (last.op = "revoke" /\ prev.op = "revoke" /\ prev.token = last.token) =>
           sessions = before

\* a registered token was revoked while another token stayed registered
C9_Witness ==
    /\ last.op = "revoke"
    /\ before[last.token] # NoSession
    /\ List(sessions) # {}

\* C10 (SpecStore): after Register over a token that had a record, Lookup
\* returns the session registered last, the map has one record with that
\* token and as many records as before.
C10_RegisterOverwrites ==
    (last.op = "register" /\ last.ok /\ before[last.token] # NoSession) =>
        /\ LookupOk(sessions, last.token)
        /\ Lookup(sessions, last.token) = last.arg
        /\ Cardinality({ s \in List(sessions) : s.Token = last.token }) = 1
        /\ Cardinality(List(sessions)) = Cardinality(List(before))

\* the record was replaced by one that differs from it in every field
C10_Witness ==
    /\ last.op = "register" /\ last.ok
    /\ before[last.token] # NoSession
    /\ before[last.token].Provider # last.arg.Provider
    /\ before[last.token].APIKey # last.arg.APIKey
    /\ before[last.token].UpstreamURL # last.arg.UpstreamURL
    /\ before[last.token].SandboxID # last.arg.SandboxID

\* C11 (SpecStore): Register of a session with the empty token returns an
\* error and leaves the map as it was; Register of a session with any other
\* token returns no error.
C11_RegisterEmptyTokenFails ==
    last.op = "register" =>
        /\ last.ok = (last.token # EmptyStr)
        /\ last.token = EmptyStr => sessions = before

\* a register with the empty token was refused by a map that holds sessions
C11_Witness ==
    /\ last.op = "register" /\ last.token = EmptyStr /\ ~last.ok
    /\ Cardinality(List(before)) = 2

\* the tokens registered and not revoked since
LiveTokens ==
    { t \in StoreKeys : ~revoked[t] /\ \E s \in registered : s.Token = t }

Relayed(t) ==
    { p \in Procs : /\ pc[p] = "done" /\ cbody[p].kind = "relay"
                     /\ cbody[p].lines = resp[p].Body /\ token[p] = t }

\* C13 (SpecPipeline), as claimed: every request whose response body was
\* relayed has recorded its usage when it completes, a usage of (0, 0)
\* included: the request counter of its token counts each such request.
C13_RelayedRequestRecorded ==
    \A t \in Tokens : Get(usage, t).Requests = Cardinality(Relayed(t))

\* the callers that call Record on token t
RecordersOn(t) ==
    { c \in Callers : cop[c].op = "record" /\ cop[c].token = t }

\* the counters after the Record calls of the callers in S, and no others
SumsOf(S) ==
    [InputTokens |-> SumCalls(S, "input"), OutputTokens |-> SumCalls(S, "output"),
     Requests |-> Cardinality(S)]

\* C14 (SpecRecord): Record finds or makes the record of the token, a zero
\* record when no call was made on the token before; when its additions are
\* done the record is the one it found plus (input, output, 1), for (0, 0)
\* too; and the additions are one step for every reader: what a Get returns
\* is the sum of whole Record calls, never a part of one.
C14_RecordAddsAtomically ==
    /\ \A c \in Callers :
        (cop[c].op = "record" /\ cpc[c] = "store") =>
            /\ usage[cop[c].token] # NoUsage
            /\ cloc[c] = usage[cop[c].token]
            /\ Recorded(cop[c].token) = {} => cloc[c] = ZeroUsage
    /\ \A c \in Callers :
        (cop[c].op = "record" /\ cpc[c] = "unlock") =>
            usage[cop[c].token] =
                [InputTokens |-> cloc[c].InputTokens + cop[c].input,
                 OutputTokens |-> cloc[c].OutputTokens + cop[c].output,
                 Requests |-> cloc[c].Requests + 1]
    /\ \A c \in Callers :
        (cop[c].op = "get" /\ cpc[c] \in {"runlock", "done"}) =>
            \E S \in SUBSET RecordersOn(cop[c].token) : cloc[c] = SumsOf(S)

\* Record(T1, 0, 0) was made after Record(T1, 1, 2): the token counters are
\* those of the first call, the request counter is 2
C14_Witness ==
    \E c \in Callers :
        /\ cop[c] = [op |-> "record", token |-> T1, input |-> 0, output |-> 0]
        /\ cpc[c] = "unlock"
        /\ cloc[c] = [InputTokens |-> 1, OutputTokens |-> 2, Requests |-> 1]
        /\ usage[T1] = [InputTokens |-> 1, OutputTokens |-> 2, Requests |-> 2]

\* C15 (SpecRecord): no step of Get changes the tracker, and neither does a
\* caller that changes the Usage it got from Get; Get of a token without a
\* record gives the zero record and makes no entry.
C15_GetLeavesTracker ==
    [][\A c \in Callers :
          /\ (GetRLock(c) \/ GetRead(c) \/ GetRUnlock(c) \/ GetMutate(c)) =>
                 usage' = usage
          /\ (GetRead(c) /\ usage[cop[c].token] = NoUsage) =>
                 (cloc'[c] = ZeroUsage /\ usage'[cop[c].token] = NoUsage)]_vars

\* a caller changed the Usage Get gave it for a token that has a record, and
\* the record is as it was
C15_Witness ==
    \E c \in Callers :
        /\ cop[c].op = "get" /\ cpc[c] = "changed"
        /\ usage[cop[c].token] = [InputTokens |-> 1, OutputTokens |-> 2,
                                   Requests |-> 1]
        /\ cloc[c] = [InputTokens |-> 1, OutputTokens |-> 2, Requests |-> 2]

\* header h has no credential: no Authorization value of bearer form and no
\* x-api-key value
NoCredential(h) ==
    /\ \A i \in DOMAIN h["Authorization"] :
           ~HasPrefix(h["Authorization"][i], BearerPrefix)
    /\ \A i \in DOMAIN h["X-Api-Key"] : h["X-Api-Key"][i] = EmptyStr

\* C16 (SpecPipeline): a request without a credential is answered 401 with
\* the JSON error of the missing authorization; no token is extracted, no
\* session is held, no upstream request is made and the usage counters are
\* as they were.
C16_NoCredentialRejected ==
    \A p \in Procs :
        (req[p] # NoRequest /\ NoCredential(req[p])) =>
            /\ pc[p] = "done"
            /\ status[p] = StatusUnauthorized
            /\ cbody[p] = ErrorBody(ErrMissingAuth)
            /\ token[p] = EmptyStr
            /\ sess[p] = NoSession
            /\ ~dispatched[p] /\ resp[p] = NoResponse
            /\ usage = EmptyUsage

\* a request that names a registered token under another scheme was refused
C16_Witness ==
    \E p \in Procs :
        /\ req[p] # NoRequest /\ NoCredential(req[p])
        /\ req[p]["Authorization"] = <<<<"Basic ">> \o T1>>
        /\ sessions[T1] # NoSession
        /\ status[p] = StatusUnauthorized

\* C17 (SpecPipeline), as claimed: a request that presents "session-" + T,
\* with a session registered under T, is looked up under T and is not
\* refused as unauthenticated.
C17_SessionPrefixStripped ==
    \A p \in Procs :
        (/\ req[p] # NoRequest
         /\ HasPrefix(extractToken(req[p]), SessionPrefix)
         /\ sessions[TrimPrefix(extractToken(req[p]), SessionPrefix)] # NoSession) =>
            /\ token[p] = TrimPrefix(extractToken(req[p]), SessionPrefix)
            /\ status[p] # StatusUnauthorized

\* C18 (SpecPipeline): a request of a session without an override whose
\* provider is none of the three known ends with 400 and makes no upstream
\* request; the upstream request of a session with an override goes to the
\* override, whatever the provider, and that of a session without one to the
\* default of its provider.
C18_UpstreamResolution ==
    \A p \in Procs :
        /\ (/\ pc[p] # "idle" /\ token[p] # EmptyStr
             /\ sessions[token[p]] # NoSession
             /\ sessions[token[p]].UpstreamURL = ""
             /\ sessions[token[p]].Provider \notin KnownProviders) =>
                /\ pc[p] = "done"
                /\ status[p] = StatusBadRequest
                /\ cbody[p] = ErrorBody(ErrUnknownProvider)
                /\ ~dispatched[p]
        /\ InFlight(p) =>
                upstream[p] = IF sess[p].UpstreamURL # "" THEN sess[p].UpstreamURL
                              ELSE DefaultUpstream(sess[p].Provider)

\* a request of a session of an unknown provider was sent to its override
C18_Witness ==
    \E p \in Procs :
        /\ pc[p] = "relay" /\ dispatched[p]
        /\ sess[p].Provider \notin KnownProviders
        /\ upstream[p] = Override

\* C20 (SpecPipeline): in the header InjectAuth leaves, x-api-key is the key
\* for anthropic and absent otherwise, Authorization is "Bearer " + key for
\* openai and absent otherwise, whatever the two headers were before, so
\* ollama and unknown providers get neither; every other header is as
\* copyHeaders made it.
C20_InjectAuthHeaders ==
    \A p \in Procs :
        InFlight(p) =>
            /\ out[p]["X-Api-Key"] =
                  IF sess[p].Provider = ProviderAnthropic
                  THEN <<sess[p].APIKey>> ELSE <<>>
            /\ out[p]["Authorization"] =
                  IF sess[p].Provider = ProviderOpenAI
                  THEN <<BearerPrefix \o sess[p].APIKey>> ELSE <<>>
            /\ \A k \in HeaderNames \ CredentialHeaders :
                  out[p][k] = copyHeaders(EmptyHeader, req[p])[k]

\* the request of a session of an unknown provider came with both credential
\* headers and left with neither, its content type kept
C20_Witness ==
    \E p \in Procs :
        /\ InFlight(p)
        /\ sess[p].Provider \notin KnownProviders
        /\ req[p]["Authorization"] # <<>> /\ req[p]["X-Api-Key"] # <<>>
        /\ out[p]["Authorization"] = <<>> /\ out[p]["X-Api-Key"] = <<>>
        /\ out[p]["Content-Type"] = <<AppJson>>

\* the read events of the log
ReadsLogged == SelectSeq(wlog, LAMBDA e : e.ev = "read")

\* no call of Write has failed
NoWriteFailed == \A i \in DOMAIN wlog : wlog[i].ev = "write" => wlog[i].ok

\* the reads made are the first reads of the source, in order; every read of
\* bytes, with or without an error, is followed at once by a successful
\* write of the same bytes; every write follows the read of its bytes and is
\* followed at once by a flush, before any other read; and the call returns
\* only when the source has ended
Delivered ==
    /\ ReadsLogged = [i \in 1..nread |-> ReadEvent(srcReads[i])]
    /\ \A i \in DOMAIN wlog :
        /\ (wlog[i].ev = "read" /\ Len(wlog[i].chunk) > 0) =>
               IF i = Len(wlog) THEN spc = "write"
               ELSE wlog[i + 1] = WriteEvent(wlog[i].chunk, TRUE)
        /\ wlog[i].ev = "write" =>
               /\ i > 1 /\ wlog[i - 1].ev = "read"
               /\ wlog[i - 1].chunk = wlog[i].chunk
               /\ IF i = Len(wlog) THEN spc = "flush"
                  ELSE wlog[i + 1] = FlushEvent
        /\ wlog[i].ev = "flush" => (i > 1 /\ wlog[i - 1].ev = "write")
    /\ spc = "returned" => nread = Len(srcReads)

BodyField(b, f, e) == IF f \in DOMAIN b THEN b[f] ELSE e

\* C21 (SpecApi): POST /v1/sessions answers 400 and leaves the session map
\* as it was when the body is malformed or its token, provider or api_key
\* is missing or empty; otherwise it answers 201 and the map holds, under
\* the token, the session of the body, with "" for an upstream_url or a
\* sandbox_id the body lacks.
C21_RegisterValidates ==
    last.op = "handleRegister" =>
        LET b == last.body
        IN  IF \/ b = MalformedBody
               \/ BodyField(b, "token", EmptyStr) = EmptyStr
               \/ BodyField(b, "provider", "") = ""
               \/ BodyField(b, "api_key", EmptyStr) = EmptyStr
            THEN last.status = StatusBadRequest /\ sessions = before
            ELSE /\ last.status = StatusCreated
                 /\ sessions =
                      [before EXCEPT ![b.token] =
                          [Token |-> b.token, Provider |-> b.provider,
                           APIKey |-> b.api_key,
                           UpstreamURL |-> BodyField(b, "upstream_url", ""),
                           SandboxID |-> BodyField(b, "sandbox_id", "")]]

\* a body with the three required keys and no other was answered 201 and
\* its session stored in place of the one the token had
C21_Witness ==
    /\ last.op = "handleRegister"
    /\ DOMAIN last.body = {"token", "provider", "api_key"}
    /\ last.status = StatusCreated
    /\ before[T1] # NoSession /\ before[T1].UpstreamURL = Override
    /\ sessions[T1] = Session(T1, ProviderAnthropic, K1, "", "")

\* C22 (Spec), as claimed: a token that has usage counters has a session in
\* the registry, in every state (handleRevokeSession is one step of the
\* model, so no revoke is ever half done).
C22_UsageOnlyOfRegistered ==
    \A t \in StoreKeys : usage[t] # NoUsage => sessions[t] # NoSession

\* C23 (SpecPipeline), as claimed: no step lowers a usage counter of a token
\* whose record it keeps or makes, the counters of a token without a record
\* counting as zero, whatever integers the upstream response carries; so
\* the counters are never negative.
C23_CountersNeverDecrease ==
    [][\A t \in StoreKeys :
          usage'[t] # NoUsage =>
              /\ usage'[t].InputTokens >= Get(usage, t).InputTokens
              /\ usage'[t].OutputTokens >= Get(usage, t).OutputTokens
              /\ usage'[t].Requests >= Get(usage, t).Requests]_vars

\* the token the Authorization header of h carries: what follows "Bearer ",
\* "" when the header is absent or of another form
BearerToken(h) ==
    IF HasPrefix(HeaderGet(h, "Authorization"), BearerPrefix)
    THEN TrimPrefix(HeaderGet(h, "Authorization"), BearerPrefix)
    ELSE EmptyStr

EndsWithFailedWrite ==
    /\ wlog # <<>>
    /\ wlog[Len(wlog)].ev = "write" /\ ~wlog[Len(wlog)].ok

\* C25 (SpecStreamFair): every call of StreamResponse on a source that ends
\* returns; when it has returned, either its last write failed or it has
\* made the read that reported the end of the stream or an error, and no
\* read after that one; a write that fails is the last thing it does: no
\* read, write or flush follows.  (StreamResponse has no result, so its
\* caller is told of no error.)
C25_StreamTerminates ==
    /\ <>(spc = "returned")
    /\ [](spc = "returned" =>
             \/ EndsWithFailedWrite
             \/ (nread = Len(srcReads) /\ srcReads[nread].err))
    /\ [](\A i \in DOMAIN wlog :
             /\ (wlog[i].ev = "write" /\ ~wlog[i].ok) =>
                    (i = Len(wlog) /\ spc = "returned")
             /\ (wlog[i].ev = "read" /\ ~wlog[i].ok) =>
                    \A j \in (i + 1)..Len(wlog) : wlog[j].ev # "read")

\* the relay has returned on the first write, which failed, with two reads
\* of the source not made
C25_Witness ==
    /\ spc = "returned"
    /\ Len(srcReads) = 3 /\ nread = 1
    /\ wlog = <<ReadEvent(srcReads[1]), WriteEvent(srcReads[1].chunk, FALSE)>>

\* the body of the upstream response is closed at most once, it is closed
\* in the end and stays so, and it is closed only when the relay is over
BodyClosedOnce ==
    /\ [](closed <= 1)
    /\ <>[](closed = 1)
    /\ [](closed = 1 => spc = "returned")

\* C26 (SpecStreamFair), as claimed: the body of the upstream response is
\* closed exactly once, however the relay ends, and after a read of the
\* body that failed nothing is written to the client.
C26_ClosedNoWriteAfterFailure ==
    /\ BodyClosedOnce
    /\ [](srcErr # "EOF" =>
             \A i \in DOMAIN wlog :
                 (wlog[i].ev = "read" /\ ~wlog[i].ok) =>
                     \A j \in (i + 1)..Len(wlog) : wlog[j].ev # "write")

\* C26 (SpecStreamFair), amended: the body of the upstream response is
\* closed exactly once, however the relay ends, and after a read of the
\* body that failed no other read is made and nothing is written to the
\* client but the bytes that read returned with its error.
C26_ClosedNoDataAfterFailure ==
    /\ BodyClosedOnce
    /\ [](srcErr # "EOF" =>
             \A i \in DOMAIN wlog :
                 (wlog[i].ev = "read" /\ ~wlog[i].ok) =>
                     \A j \in (i + 1)..Len(wlog) :
                         /\ wlog[j].ev # "read"
                         /\ wlog[j].ev = "write" =>
                                (j = i + 1 /\ wlog[j].chunk = wlog[i].chunk))

\* the second read of the body failed and brought bytes: they were written,
\* the third read was not made and the body is closed
C26_Witness ==
    /\ closed = 1 /\ hpc = "returned" /\ srcErr = "unexpected EOF"
    /\ Len(srcReads) = 2 /\ nread = 2 /\ Len(srcReads[2].chunk) > 0
    /\ wlog[Len(wlog)].ev \in {"write", "flush"}
    /\ \E i \in DOMAIN wlog : wlog[i] = WriteEvent(srcReads[2].chunk, TRUE)

\* C27 (SpecPipeline): from the moment the status of the upstream is written
\* to the client, the status of the response is that status and its body is
\* no error body of the proxy: what the client has of the body is a prefix
\* of the body of the upstream, in order, also when the relay stopped in
\* the middle.
C27_NoErrorAfterHeaders ==
    \A p \in Procs :
        resp[p] # NoResponse =>
            /\ status[p] = resp[p].StatusCode
            /\ cbody[p].kind # "error" /\ cbody[p].text = EmptyStr
            /\ Len(cbody[p].lines) <= Len(resp[p].Body)
            /\ cbody[p].lines = SubSeq(resp[p].Body, 1, Len(cbody[p].lines))

\* the relay of a body of three lines stopped after the first: the client
\* has status 200 and that line
C27_Witness ==
    \E p \in Procs :
        /\ pc[p] = "done" /\ resp[p] # NoResponse
        /\ Len(resp[p].Body) = 3
        /\ status[p] = 200
        /\ cbody[p] = RelayedBody(<<resp[p].Body[1]>>)

\* the state of the pipeline a request is in, from where ServeHTTP stands
\* (pcv), the upstream response it holds (r) and the body it has written
\* (b).  Dispatched is passed within the step of httpClient.Do, Metered
\* within the step that ends the relay.
PipelineState(pcv, r, b) ==
    CASE pcv = "idle" -> "Unauthenticated"
      [] pcv = "dispatch" -> "Authenticated"
      [] pcv = "relay" -> IF isStreamingResponse(r) THEN "Streaming" ELSE "Buffered"
      [] pcv = "done" -> IF b.kind = "error" THEN "Errored" ELSE "Complete"

\* the order of the states of the pipeline
Rank(st) ==
    CASE st = "Unauthenticated" -> 0
      [] st = "Authenticated" -> 1
      [] st = "Dispatched" -> 2
      [] st \in {"Streaming", "Buffered"} -> 3
      [] st = "Metered" -> 4
      [] st \in {"Complete", "Errored"} -> 5

\* C28 (SpecPipeline): a request never goes to an earlier state of the
\* pipeline, and stays in Errored or Complete once there; it reaches
\* Errored from any state before Complete and Complete only from Streaming
\* or Buffered; once httpClient.Do was called it is not called again; the
\* status written to the client is written once, it is 401, 400, 500 or 502
\* in Errored and the status of the upstream from Streaming or Buffered on.
C28_LinearPipeline ==
    /\ [][\A p \in Procs :
            LET st == PipelineState(pc[p], resp[p], cbody[p])
                nx == PipelineState(pc'[p], resp'[p], cbody'[p])
            IN  /\ Rank(nx) >= Rank(st)
                /\ st \in {"Errored", "Complete"} => nx = st
                /\ (nx = "Complete" /\ st # nx) => st \in {"Streaming", "Buffered"}
                /\ (nx \in {"Streaming", "Buffered"} /\ st # nx) =>
                       st = "Authenticated"
                /\ (nx = "Authenticated" /\ st # nx) => st = "Unauthenticated"
                /\ dispatched[p] =>
                       /\ ~(DispatchFails(p) \/ Dispatch(p, PipelineResponses))
                       /\ dispatched'[p] /\ resp'[p] = resp[p]
                /\ status[p] # 0 => status'[p] = status[p]]_vars
    /\ [](\A p \in Procs :
            LET st == PipelineState(pc[p], resp[p], cbody[p])
            IN  /\ st \in {"Unauthenticated", "Authenticated"} =>
                       (status[p] = 0 /\ ~dispatched[p])
                /\ st = "Errored" =>
                       /\ status[p] \in {StatusUnauthorized, StatusBadRequest,
                                          StatusInternalServerError, StatusBadGateway}
                       /\ resp[p] = NoResponse
                       /\ dispatched[p] <=> status[p] = StatusBadGateway
                /\ st \in {"Streaming", "Buffered", "Complete"} =>
                       (dispatched[p] /\ status[p] = resp[p].StatusCode))

\* a request whose upstream answered 500 is Complete with that status, not
\* Errored: the client has the body of the upstream
C28_Witness ==
    \E p \in Procs :
        /\ PipelineState(pc[p], resp[p], cbody[p]) = "Complete"
        /\ dispatched[p]
        /\ status[p] = StatusInternalServerError
        /\ cbody[p] = RelayedBody(resp[p].Body)

\* the scheme-A pair of a JSON payload: input and output tokens
SchemeA(u) == <<u.input_tokens, u.output_tokens>>
\* the scheme-B pair of a JSON payload: prompt and completion tokens
SchemeB(u) == <<u.prompt_tokens, u.completion_tokens>>

\* the requests that hold an upstream response whose body is one JSON object
HoldsJson(p) == pc[p] = "relay" /\ Unmarshals(resp[p].Body)

\* C29 (SpecPipeline), as claimed: for the body of a response that is one
\* JSON object, extractUsage gives, for anthropic, the scheme-A pair when it
\* is not (0, 0) and the scheme-B pair otherwise, and for openai the
\* scheme-B pair when it is not (0, 0) and the scheme-A pair otherwise.
C29_KnownProviderFallback ==
    \A p \in Procs :
        HoldsJson(p) =>
            LET u == resp[p].Body[1].payload
                got == extractUsage(resp[p].Body, sess[p].Provider)
            IN  /\ sess[p].Provider = ProviderAnthropic =>
                       got = IF SchemeA(u) # <<0, 0>> THEN SchemeA(u) ELSE SchemeB(u)
                /\ sess[p].Provider = ProviderOpenAI =>
                       got = IF SchemeB(u) # <<0, 0>> THEN SchemeB(u) ELSE SchemeA(u)

\* C30 (SpecPipeline), as claimed: for a provider that is neither anthropic
\* nor openai and the body of a response that is one JSON object,
\* extractUsage gives the scheme-A pair when it is not (0, 0), also when
\* only its output tokens are not 0, and the scheme-B pair otherwise.
C30_UnknownProviderPrefersA ==
    \A p \in Procs :
        (HoldsJson(p) /\ sess[p].Provider \notin {ProviderAnthropic, ProviderOpenAI}) =>
            LET u == resp[p].Body[1].payload
            IN  extractUsage(resp[p].Body, sess[p].Provider) =
                    IF SchemeA(u) # <<0, 0>> THEN SchemeA(u) ELSE SchemeB(u)

\* what the event of line l yields for provider: the usage extractUsage
\* finds in its payload; (0, 0) for a line that is no data line and for the
\* terminator [DONE]
FrameUsage(l, provider) ==
    IF ~l.data \/ l.payload.kind = "[DONE]" THEN <<0, 0>>
    ELSE extractUsage(<<Line(FALSE, l.payload)>>, provider)

\* the positions of the events of the captured stream that yield a usage
\* other than (0, 0)
UsageFrames ==
    { i \in DOMAIN ebody : FrameUsage(ebody[i], eprov) # <<0, 0>> }

NoUsageIn(body) ==
    \/ ~Unmarshals(body)
    \/ body[1].payload = Json(0, 0, 0, 0)

\* C32 (SpecPipeline): extractUsage gives (0, 0) for a body that is no JSON
\* object or has no usage, for every provider, and a request whose captured
\* bytes give (0, 0) leaves the counters as they were; whatever the usage
\* extraction gives, the client has the status of the upstream, its header
\* as copyHeaders copies it and the lines of its body that were written.
C32_ExtractionBestEffort ==
    \A p \in Procs :
        resp[p] # NoResponse =>
            /\ \A n \in 0..Len(resp[p].Body) :
                  NoUsageIn(SubSeq(resp[p].Body, 1, n)) =>
                      \A pr \in {ProviderAnthropic, ProviderOpenAI, ProviderOllama, "other"} :
                          extractUsage(SubSeq(resp[p].Body, 1, n), pr) = <<0, 0>>
            /\ (/\ pc[p] = "done" /\ ~isStreamingResponse(resp[p])
                 /\ \A n \in 0..Len(resp[p].Body) :
                       NoUsageIn(SubSeq(resp[p].Body, 1, n))) =>
                    usage = EmptyUsage
            /\ pc[p] = "done" =>
                    /\ status[p] = resp[p].StatusCode
                    /\ ClientResponseHeader(p) = copyHeaders(EmptyHeader, resp[p].Header)
                    /\ \E m \in 0..Len(resp[p].Body) :
                          cbody[p] = RelayedBody(SubSeq(resp[p].Body, 1, m))

\* the upstream answered 500 with a body that is no JSON: the client has
\* the status and the whole body, and no usage is recorded
C32_Witness ==
    \E p \in Procs :
        /\ pc[p] = "done" /\ resp[p] # NoResponse
        /\ resp[p].Body = <<Line(FALSE, NotJson)>>
        /\ status[p] = StatusInternalServerError
        /\ cbody[p] = RelayedBody(resp[p].Body)
        /\ usage = EmptyUsage

\* the names of the connection-scoped headers, in lower case
ExcludedHeaders ==
    {"connection", "keep-alive", "transfer-encoding", "te", "trailer",
     "upgrade", "host"}

\* C33 (SpecPipeline): the request handed to the upstream has every header
\* of the client request with all its values, in order, but the excluded
\* headers, of which it has none, and the two credential headers (which
\* InjectAuth rewrites); the response header the client gets has every
\* header of the upstream response with all its values but the excluded
\* headers, of which it has none.
C33_HeadersCopied ==
    \A p \in Procs :
        /\ InFlight(p) =>
              \A k \in HeaderNames \ CredentialHeaders :
                  out[p][k] = IF ToLower(k) \in ExcludedHeaders THEN <<>>
                              ELSE req[p][k]
        /\ (resp[p] # NoResponse /\ cbody[p].kind # "error") =>
              \A k \in HeaderNames :
                  ClientResponseHeader(p)[k] =
                      IF ToLower(k) \in ExcludedHeaders THEN <<>>
                      ELSE resp[p].Header[k]

\* a request with two Content-Type values, Connection and Transfer-Encoding
\* went upstream with the two values and neither of the other headers, and
\* the response came back with its two Content-Type values and without its
\* Connection and Transfer-Encoding
C33_Witness ==
    \E p \in Procs :
        /\ pc[p] = "relay"
        /\ req[p]["Content-Type"] = <<AppJson, EventStream>>
        /\ req[p]["Transfer-Encoding"] = <<Chunked>>
        /\ req[p]["Connection"] # <<>>
        /\ out[p]["Content-Type"] = <<AppJson, EventStream>>
        /\ out[p]["Transfer-Encoding"] = <<>> /\ out[p]["Connection"] = <<>>
        /\ resp[p].Header["Transfer-Encoding"] = <<Chunked>>
        /\ ClientResponseHeader(p)["Content-Type"] = <<AppJson, NDJson>>
        /\ ClientResponseHeader(p)["Transfer-Encoding"] = <<>>
        /\ ClientResponseHeader(p)["Connection"] = <<>>

\* the calls of Record the counters of the tracker account for
TotalRequests ==
    LET RECURSIVE Sum(_)
        Sum(S) == IF S = {} THEN 0
                  ELSE LET t == CHOOSE x \in S : TRUE
                       IN  Get(usage, t).Requests + Sum(S \ {t})
    IN  Sum(StoreKeys)

\* C34 (SpecPipeline): the usage counters change only in the step in which
\* the relay or copy of a request ends, and then only those of its token,
\* by one call of Record; as long as a request has not ended its relay it
\* has recorded nothing, a request records at most once, and a request
\* answered with an error of the proxy has changed no counter.
C34_RecordOnceAfterRelay ==
    /\ [][usage' # usage =>
            \E p \in Procs :
                /\ pc[p] = "relay" /\ pc'[p] = "done"
                /\ \E j \in DOMAIN resp[p].Body :
                      \E u \in {SchemeA(resp[p].Body[j].payload),
                                SchemeB(resp[p].Body[j].payload)} :
                          usage' = Record(usage, token[p], u[1], u[2])]_vars
    /\ [](/\ TotalRequests <= Cardinality({p \in Procs : pc[p] = "done"
                                                         /\ cbody[p].kind = "relay"})
          /\ \A p \in Procs :
                (pc[p] # "done" \/ cbody[p].kind = "error") =>
                    Get(usage, token[p]).Requests = 0)

\* a request was relayed and its usage recorded once
C34_Witness ==
    \E p \in Procs :
        /\ pc[p] = "done" /\ cbody[p].kind = "relay"
        /\ usage[token[p]] = [InputTokens |-> 3, OutputTokens |-> 1, Requests |-> 1]
        /\ TotalRequests = 1

----------------------------------------------------------------------------
(* C35: the capture buffer of the metering reader during a relay *)

RECURSIVE BytesRead(_, _)
\* the bytes the first n reads of the source rs returned, in order
BytesRead(rs, n) ==
    IF n = 0 THEN <<>> ELSE BytesRead(rs, n - 1) \o rs[n].chunk

IsPrefix(a, b) == Len(a) <= Len(b) /\ a = SubSeq(b, 1, Len(a))

\* C35: in every state of a relay (SpecStream, each Read, Write and Flush a
\* step) the capture buffer of the metering reader is the concatenation, in
\* order, of the bytes every read made so far returned, the bytes a failing
\* read returned included; the bytes the client has taken are a prefix of
\* the buffer; as long as no write to the client failed they are the whole
\* buffer, but for the one chunk the loop holds between its Read and the
\* Write of it; and the bytes handed to the usage extraction when the relay
\* has returned are the bytes read, also when a failed write ended the
\* relay before the source did.
C35_CaptureIsBytesRead ==
    /\ mrBuf = BytesRead(srcReads, nread)
    /\ IsPrefix(client, mrBuf)
    /\ NoWriteFailed =>
         IF spc = "write" THEN mrBuf = client \o srcReads[nread].chunk
                          ELSE client = mrBuf
    /\ hpc = "returned" => metered = BytesRead(srcReads, nread)

\* a truncated relay: the second write failed after one of its two bytes,
\* a third read was never made, and the extraction got all three bytes read
C35_Witness ==
    /\ hpc = "returned"
    /\ Len(srcReads) = 3 /\ nread = 2
    /\ ~NoWriteFailed
    /\ client = <<"a", "b">>
    /\ mrBuf = <<"a", "b", "c">>
    /\ metered = <<"a", "b", "c">>

----------------------------------------------------------------------------
(* C36: the session registry and the usage counters *)

\* the step is a call on the session registry: a register or revoke of the
\* API (Spec), the session lookup of a proxied request (Spec: Begin), or a
\* call of Register, Lookup, Revoke or List of the store (SpecStore)
RegistryStep ==
    \/ sessions' # sessions \/ registered' # registered \/ revoked' # revoked
    \/ \E p \in Procs : pc[p] = "idle" /\ pc'[p] # "idle"
    \/ last' # last \/ prev' # prev

\* C36: no step that registers a session (over a free or a taken token,
\* with the same or another provider and key), revokes one, looks one up or
\* lists the sessions changes the usage counters of any token; the counters
\* of a token registered again therefore go on from where they were.
C36_RegistryLeavesUsage ==
    [][RegistryStep => usage' = usage]_vars

\* the counters of T1 stand at one recorded request while T1 has been
\* registered again with another provider and key: the second request still
\* holds the session it looked up before, the registry holds the new one
C36_Witness ==
    /\ pc[1] = "done" /\ token[1] = T1 /\ cbody[1].kind = "relay"
    /\ usage[T1] = [InputTokens |-> 1, OutputTokens |-> 2, Requests |-> 1]
    /\ pc[2] = "relay" /\ token[2] = T1
    /\ sess[2] = Session(T1, ProviderAnthropic, K1, "", "sb-1")
    /\ sessions[T1] = Session(T1, ProviderOpenAI, K2, Override, "sb-2")

====
